---------------------------- MODULE Spec2Model ----------------------------
(***************************************************************************)
(* A model of trimport.py: the Trade Republic statement importer.          *)
(*                                                                         *)
(* Text is modelled at the level the regular expressions of the source     *)
(* see it: a line is a sequence of whitespace-separated tokens, and each   *)
(* token carries the class the patterns give it and its value:             *)
(*   "date"   d.m.yyyy, matched by DATE_PATTERN          (a=d, b=m, c=y)   *)
(*   "wdate"  "d Month yyyy", matched by DATE_WORD_PATTERN (a=d, s, c=y)   *)
(*   "amt"    a locale-formatted amount, AMOUNT_PATTERN  (a, b, c: AmtTok) *)
(*   "isin"   a security identifier, ISIN_PATTERN        (s = the code)    *)
(*   "num"    a standalone integer                       (a = value)       *)
(*   "word"   any other word                             (s = the word)    *)
(* Joining lines with one space is the concatenation of token sequences.   *)
(* Optional values are sequences of length 0 (None) or 1.  Floats are      *)
(* integers in hundredths.                                                 *)
(***************************************************************************)
EXTENDS Integers, Sequences, FiniteSets, TLC

(* ------------------------------ bounds --------------------------------- *)

\* the largest number of amounts on a generated line
MaxAmounts == 4
\* the largest number of raw lines of a page given to the Table Locator
MaxPageLines == 3
\* the largest number of pages of a document
MaxPages == 3
\* the number of scan_folder runs
MaxScans == 2
\* the largest batch given directly to insert_transactions
MaxBatch == 2

(* ------------------------------ tokens --------------------------------- *)

Tok(k, s, a, b, c) == [k |-> k, s |-> s, a |-> a, b |-> b, c |-> c]
DateTok(d, m, y) == Tok("date", "", d, m, y)
WDateTok(d, mon, y) == Tok("wdate", mon, d, 0, y)
\* an amount "[-]t.uuu,dd": a = its sign, b = the digit groups before the last
\* thousands separator (0 when there is none), c = the digits from there on
AmtTok(sign, thousands, rest) == Tok("amt", "", sign, thousands, rest)
IsinTok(code) == Tok("isin", code, 0, 0, 0)
NumTok(n) == Tok("num", "", n, 0, 0)
WordTok(w) == Tok("word", w, 0, 0, 0)

None == <<>>
Some(v) == <<v>>

Min(S) == CHOOSE x \in S : \A y \in S : x <= y

\* index of the first element of s that passes Test, 0 when there is none
FirstIdx(s, Test(_)) ==
    LET hits == {i \in 1..Len(s) : Test(s[i])}
    IN  IF hits = {} THEN 0 ELSE Min(hits)

\* s without its i-th element: text[:start] + text[end:]
RemoveAt(s, i) == SubSeq(s, 1, i - 1) \o SubSeq(s, i + 1, Len(s))

\* str.lower() on the words of the model's vocabulary
Lower(w) ==
    CASE w = "Kauf" -> "kauf"
      [] w = "KAUF" -> "kauf"
      [] w = "Verkauf" -> "verkauf"
      [] w = "Dividende" -> "dividende"
      [] w = "Handel" -> "handel"
      [] w = "Übertrag" -> "übertrag"
      [] w = "Buy" -> "buy"
      [] w = "Sell" -> "sell"
      [] w = "Buyback" -> "buyback"
      [] w = "Trade" -> "trade"
      [] w = "Feb" -> "feb"
      [] w = "Feb." -> "feb."
      [] w = "Foo" -> "foo"
      [] w = "Example" -> "example"
      [] w = "AG" -> "ag"
      [] w = "Demo" -> "demo"
      [] w = "SE" -> "se"
      [] w = "Seite" -> "seite"
      [] OTHER -> w

\* "needle in haystack" for the lower-cased words of the vocabulary
ContainsLower(w, needle) ==
    \/ Lower(w) = needle
    \/ needle = "buy" /\ Lower(w) = "buyback"

\* len(w.lower()) - len(w).  str.lower() turns each capital I with dot above
\* (U+0130) into two code points and leaves the length of every other word of
\* the vocabulary alone; "ISTINYE" stands for the place name written with two
\* of these letters.
lower_growth(w) == IF w = "ISTINYE" THEN 2 ELSE 0

RECURSIVE Digits(_)
Digits(n) == IF n < 10 THEN 1 ELSE 1 + Digits(n \div 10)

\* the number of characters of a token
TokLen(t) ==
    CASE t.k \in {"word", "isin"} -> Len(t.s)
      [] t.k = "num" -> Digits(t.a)
      [] t.k = "date" -> 10
      [] t.k = "wdate" -> Digits(t.a) + 1 + Len(t.s) + 1 + 4
      [] t.k = "amt" ->
            (IF t.a < 0 THEN 1 ELSE 0)
            + (IF t.b > 0 THEN Digits(t.b) + ((Digits(t.b) - 1) \div 3) + 7
               ELSE (IF t.c < 100 THEN 3 ELSE Digits(t.c)) + 1)
      [] OTHER -> 0

\* what is left of a token without its first k characters, 0 < k < TokLen(t):
\* the rest of a word is a word, the rest of an ISIN is no ISIN any more, the
\* rest of an integer is an integer, the rest of a date or an amount is
\* neither a word nor a date nor an amount
CutTok(t, k) ==
    CASE t.k \in {"word", "isin"} -> WordTok(SubSeq(t.s, k + 1, Len(t.s)))
      [] t.k = "num" -> NumTok(t.a % (10 ^ (Digits(t.a) - k)))
      [] OTHER -> Tok("rest", "", 0, 0, 0)

RECURSIVE drop_chars(_, _)
\* text[n:].strip() for a text that starts with the space before its first
\* token
drop_chars(tokens, n) ==
    IF n <= 1 \/ tokens = <<>> THEN tokens
    ELSE IF n - 1 >= TokLen(Head(tokens))
         THEN drop_chars(Tail(tokens), n - 1 - TokLen(Head(tokens)))
         ELSE <<CutTok(Head(tokens), n - 1)>> \o Tail(tokens)

(* ------------------------------ dates ---------------------------------- *)

IsLeap(y) == y % 4 = 0 /\ (y % 100 # 0 \/ y % 400 = 0)

DaysInMonth(m, y) ==
    IF m = 2 THEN (IF IsLeap(y) THEN 29 ELSE 28)
    ELSE IF m \in {4, 6, 9, 11} THEN 30 ELSE 31

\* the dates datetime accepts; anything else is a ValueError
IsRealDate(d, m, y) ==
    /\ y \in 1..9999
    /\ m \in 1..12
    /\ d \in 1..DaysInMonth(m, y)

\* date.isoformat(): the (year, month, day) triple
IsoDate(d, m, y) == <<y, m, d>>

\* MONTH_MAP.get: 0 stands for None
MONTH_MAP(cleaned) ==
    CASE cleaned \in {"jan", "januar"} -> 1
      [] cleaned \in {"feb", "februar"} -> 2
      [] cleaned \in {"mär", "märz", "mar", "maerz"} -> 3
      [] cleaned \in {"apr", "april"} -> 4
      [] cleaned = "mai" -> 5
      [] cleaned \in {"jun", "juni"} -> 6
      [] cleaned \in {"jul", "juli"} -> 7
      [] cleaned \in {"aug", "august"} -> 8
      [] cleaned \in {"sep", "sept", "september"} -> 9
      [] cleaned \in {"okt", "oktober"} -> 10
      [] cleaned \in {"nov", "november"} -> 11
      [] cleaned \in {"dez", "dezember"} -> 12
      [] OTHER -> 0

\* month_value.strip(".").lower(), then the lookup
normalize_word_month(month_value) ==
    LET lowered == Lower(month_value)
        cleaned == IF lowered = "feb." THEN "feb" ELSE lowered
    IN  MONTH_MAP(cleaned)

IsNumDate(t) == t.k = "date"
IsWordDate(t) == t.k = "wdate"

DateRaised(text) == [raised |-> TRUE, date |-> None, rest |-> text]
DateFound(text, i, iso) == [raised |-> FALSE, date |-> Some(iso), rest |-> RemoveAt(text, i)]
DateAbsent(text) == [raised |-> FALSE, date |-> None, rest |-> text]

\* normalize_date: strptime raises ValueError on a date that does not exist
normalize_date(text, i) ==
    IF IsRealDate(text[i].a, text[i].b, text[i].c)
    THEN DateFound(text, i, IsoDate(text[i].a, text[i].b, text[i].c))
    ELSE DateRaised(text)

\* the textual branch: datetime(year, month, day) raises in the same way
word_date(text, j) ==
    LET month == normalize_word_month(text[j].s)
    IN  IF month = 0 THEN DateAbsent(text)
        ELSE IF IsRealDate(text[j].a, month, text[j].c)
             THEN DateFound(text, j, IsoDate(text[j].a, month, text[j].c))
             ELSE DateRaised(text)

extract_date(text) ==
    LET i == FirstIdx(text, IsNumDate)
        j == FirstIdx(text, IsWordDate)
    IN  IF i # 0 THEN normalize_date(text, i)
        ELSE IF j # 0 THEN word_date(text, j)
        ELSE DateAbsent(text)

(* ------------------------------ types ---------------------------------- *)

\* the keys of TYPE_MAP in the order the dict literal gives them
TYPE_MAP_KEYS ==
    <<"kauf", "verkauf", "übertrag", "einzahlung", "auszahlung",
      "dividende", "steuer", "gebühr", "transfer", "handel">>

TYPE_MAP(key) ==
    CASE key = "kauf" -> "buy"
      [] key = "verkauf" -> "sell"
      [] key = "handel" -> "trade"
      [] OTHER -> "transfer"

\* sorted(TYPE_MAP, key=len, reverse=True): stable, longest first
SortedTypeKeys ==
    LET n == Len(TYPE_MAP_KEYS)
        Before(i, j) ==
            \/ Len(TYPE_MAP_KEYS[i]) > Len(TYPE_MAP_KEYS[j])
            \/ Len(TYPE_MAP_KEYS[i]) = Len(TYPE_MAP_KEYS[j]) /\ i < j
        Rank(j) == Cardinality({i \in 1..n : Before(i, j)}) + 1
    IN  [r \in 1..n |-> TYPE_MAP_KEYS[CHOOSE j \in 1..n : Rank(j) = r]]

\* re.search(rf"\b{key}\b", lower_line): a word equal to the key
MatchesKey(t, key) == t.k = "word" /\ Lower(t.s) = key

RECURSIVE growth_upto(_, _)
\* by how much lower_line is longer than remainder up to the end of token n
growth_upto(remainder, n) ==
    IF n = 0 THEN 0 ELSE growth_upto(remainder, n - 1) + lower_growth(remainder[n].s)

\* the first key, longest first, that occurs in lower_line, and where: at is the
\* token matched (0 when no key occurs), shift is how far type_match.end(), a
\* position in lower_line, lies behind the end of that token in remainder
type_search(remainder) ==
    LET keys == SortedTypeKeys
        found == {r \in 1..Len(keys) :
                     \E i \in 1..Len(remainder) : MatchesKey(remainder[i], keys[r])}
    IN  IF found = {} THEN [key |-> "", at |-> 0, shift |-> 0]
        ELSE LET key == keys[Min(found)]
                 IsKey(t) == MatchesKey(t, key)
                 at == FirstIdx(remainder, IsKey)
             IN  [key |-> key, at |-> at, shift |-> growth_upto(remainder, at)]

\* remainder[type_match.end() : stop].strip(), stop the end of token number stop
after_match(remainder, type_match, stop) ==
    drop_chars(SubSeq(remainder, type_match.at + 1, stop), type_match.shift)

\* lines 242-252: the kind of the keyword, "handel" settled by the description
resolve_type(key, description) ==
    IF key = "handel"
    THEN IF \E i \in 1..Len(description) : ContainsLower(description[i].s, "buy")
         THEN "buy"
         ELSE IF \E i \in 1..Len(description) : ContainsLower(description[i].s, "sell")
              THEN "sell"
              ELSE "transfer"
    ELSE TYPE_MAP(key)

(* ------------------------------ amounts -------------------------------- *)

IsAmt(t) == t.k = "amt"

\* value.replace(".", "").replace(",", "."), then float(): in hundredths
parse_amount(t) == t.a * (t.b * 100000 + t.c)

RECURSIVE extract_amounts(_)
extract_amounts(text) ==
    IF text = <<>> THEN <<>>
    ELSE IF IsAmt(Head(text))
         THEN <<parse_amount(Head(text))>> \o extract_amounts(Tail(text))
         ELSE extract_amounts(Tail(text))

Abs(x) == IF x < 0 THEN -x ELSE x

\* lines 266-278: two amounts, or one
assign_few(amounts, txn_type) ==
    LET n == Len(amounts)
    IN  IF n = 2
        THEN IF txn_type = "buy"
             THEN [amount_in |-> None, amount_out |-> Some(amounts[1]),
                   balance |-> Some(amounts[n])]
             ELSE IF txn_type = "sell"
             THEN [amount_in |-> Some(amounts[1]), amount_out |-> None,
                   balance |-> Some(amounts[n])]
             ELSE IF amounts[1] < 0
             THEN [amount_in |-> None, amount_out |-> Some(Abs(amounts[1])),
                   balance |-> Some(amounts[n])]
             ELSE [amount_in |-> Some(amounts[1]), amount_out |-> None,
                   balance |-> Some(amounts[n])]
        ELSE [amount_in |-> None, amount_out |-> None, balance |-> Some(amounts[n])]

\* a slip: amounts[0], amounts[1], amounts[2] in place of the last three
assign_first_three(amounts, txn_type) ==
    IF Len(amounts) >= 3
    THEN [amount_in |-> Some(amounts[1]),
          amount_out |-> Some(amounts[2]),
          balance |-> Some(amounts[3])]
    ELSE assign_few(amounts, txn_type)

\* lines 258-278: which amounts become amount_in, amount_out and balance
assign_amounts(amounts, txn_type) ==
    LET n == Len(amounts)
    IN  IF n >= 3
        THEN [amount_in |-> Some(amounts[n - 2]),
              amount_out |-> Some(amounts[n - 1]),
              balance |-> Some(amounts[n])]
        ELSE assign_few(amounts, txn_type)

(* --------------------------- description ------------------------------- *)

IsWord(t, lowered) == t.k = "word" /\ Lower(t.s) = lowered

\* strips the first of "buy trade", "sell trade", "buy", "sell" the lower-cased
\* description starts with; a longer first word keeps what follows the prefix
normalize_description(description) ==
    IF description = <<>> THEN description
    ELSE LET first == description[1]
             marker == IsWord(first, "buy") \/ IsWord(first, "sell")
         IN  IF marker /\ Len(description) >= 2 /\ IsWord(description[2], "trade")
             THEN SubSeq(description, 3, Len(description))
             ELSE IF marker THEN Tail(description)
             ELSE IF IsWord(first, "buyback")
                  THEN <<WordTok("back")>> \o Tail(description)
                  ELSE description

IsIsin(t) == t.k = "isin"

\* what r"\b(\d+(?:[.,]\d+)?)\b" finds in a token, in hundredths: an integer, the
\* "dd.mm" of a further numeric date, the day of a textual date
HasNumber(t) == t.k \in {"num", "date", "wdate"}
NumberOf(t) ==
    IF t.k = "num" THEN 100 * t.a
    ELSE IF t.k = "date" THEN 100 * t.a + t.b
    ELSE 100 * t.a

\* isin_at = 0 stands for isin_match = None
extract_quantity(description, isin_at) ==
    LET search_text == SubSeq(description, isin_at + 1, Len(description))
        i == FirstIdx(search_text, HasNumber)
    IN  IF i = 0 THEN None ELSE Some(NumberOf(search_text[i]))

(* ------------------------------ identity ------------------------------- *)

\* "|".join([p or "" for p in parts]) under sha256: the hash is taken to be
\* injective on the joined text, and the joined text is the tuple of the parts,
\* an absent part and an empty one alike
build_txn_hash(parts) == parts

(* ------------------------- parse_transaction_line ---------------------- *)

Raised == [raised |-> TRUE, txn |-> None]
NotATransaction == [raised |-> FALSE, txn |-> None]
Parsed(txn) == [raised |-> FALSE, txn |-> Some(txn)]

\* lines 280-323: the fields after the amounts, and the record
build_transaction(date_iso, txn_type, remainder, type_match, money, source_pdf) ==
    LET amount_start == FirstIdx(remainder, IsAmt)
        description_only ==
            normalize_description(after_match(remainder, type_match, amount_start - 1))
        isin_at == FirstIdx(description_only, IsIsin)
        isin_value == IF isin_at = 0 THEN None ELSE Some(description_only[isin_at].s)
        name_text == IF isin_at = 0 THEN description_only
                     ELSE SubSeq(description_only, 1, isin_at - 1)
        instrument_name == IF name_text = <<>> THEN None ELSE Some(name_text)
        quantity == extract_quantity(description_only, isin_at)
    IN  [date |-> date_iso,
         txn_type |-> txn_type,
         isin |-> isin_value,
         instrument_name |-> instrument_name,
         quantity |-> quantity,
         amount_in |-> money.amount_in,
         amount_out |-> money.amount_out,
         balance |-> money.balance,
         source_pdf |-> source_pdf,
         txn_hash |-> build_txn_hash(<<date_iso, txn_type, isin_value, instrument_name,
                                       quantity, money.amount_in, money.amount_out,
                                       money.balance, source_pdf>>)]

parse_transaction_line(line, source_pdf) ==
    LET dated == extract_date(line)
        remainder == dated.rest
        type_match == type_search(remainder)
        description == after_match(remainder, type_match, Len(remainder))
        txn_type == resolve_type(type_match.key, description)
        amounts == extract_amounts(remainder)
    IN  IF dated.raised THEN Raised
        ELSE IF dated.date = None THEN NotATransaction
        ELSE IF type_match.at = 0 THEN NotATransaction
        ELSE IF amounts = <<>> THEN NotATransaction
        ELSE Parsed(build_transaction(dated.date[1], txn_type, remainder, type_match,
                                      assign_amounts(amounts, txn_type), source_pdf))

(* ------------------------------ the text ------------------------------- *)

\* the lines of the model's statements, by name
LineText(id) ==
    CASE id = "HEADER" ->
             <<WordTok("DATUM"), WordTok("TYP"), WordTok("BESCHREIBUNG"),
               WordTok("ZAHLUNGSEINGANG"), WordTok("ZAHLUNGSAUSGANG"), WordTok("SALDO")>>
      [] id = "Header" ->
             <<WordTok("Datum"), WordTok("Typ"), WordTok("Beschreibung"),
               WordTok("Zahlungseingang"), WordTok("Zahlungsausgang"), WordTok("Saldo")>>
      [] id = "HeaderNoSaldo" ->
             <<WordTok("DATUM"), WordTok("TYP"), WordTok("BESCHREIBUNG"),
               WordTok("ZAHLUNGSEINGANG"), WordTok("ZAHLUNGSAUSGANG")>>
      \* "01.02.2024 Kauf Example": a transaction cut before the end of its name
      [] id = "KaufExample" ->
             <<DateTok(1, 2, 2024), WordTok("Kauf"), WordTok("Example")>>
      \* "AG DE0001234567 10 0,00 1.234,56 5.000,00": the rest of it
      [] id = "AGRest" ->
             <<WordTok("AG"), IsinTok("DE0001234567"), NumTok(10),
               AmtTok(1, 0, 0), AmtTok(1, 1, 23456), AmtTok(1, 5, 0)>>
      \* "01.03.2024 Verkauf Demo SE DE0009999999 5 2.000,00 0,00 7.000,00"
      [] id = "VerkaufDemo" ->
             <<DateTok(1, 3, 2024), WordTok("Verkauf"), WordTok("Demo"), WordTok("SE"),
               IsinTok("DE0009999999"), NumTok(5),
               AmtTok(1, 2, 0), AmtTok(1, 0, 0), AmtTok(1, 7, 0)>>
      \* "Seite 1": page furniture
      [] id = "Seite" -> <<WordTok("Seite"), NumTok(1)>>
      \* "31.02.2024 Kauf Example": a date that does not exist
      [] id = "Kauf31Feb" ->
             <<DateTok(31, 2, 2024), WordTok("Kauf"), WordTok("Example")>>
      [] OTHER -> <<>>

\* a physical line of a page: the text and whether white space surrounds it
RawLine(ws, id) == [ws |-> ws, line |-> id]
Plain(id) == RawLine(FALSE, id)

\* ln.strip()
strip(raw) == raw.line

HEADER_TOKENS ==
    {"DATUM", "TYP", "BESCHREIBUNG", "ZAHLUNGSEINGANG", "ZAHLUNGSAUSGANG", "SALDO"}

\* str.upper() on the words of the model's vocabulary
Upper(w) ==
    CASE w = "Datum" -> "DATUM"
      [] w = "Typ" -> "TYP"
      [] w = "Beschreibung" -> "BESCHREIBUNG"
      [] w = "Zahlungseingang" -> "ZAHLUNGSEINGANG"
      [] w = "Zahlungsausgang" -> "ZAHLUNGSAUSGANG"
      [] w = "Saldo" -> "SALDO"
      [] OTHER -> w

\* all(token in upper for token in HEADER_TOKENS)
IsHeaderLine(id) ==
    \A token \in HEADER_TOKENS :
        \E i \in 1..Len(LineText(id)) : Upper(LineText(id)[i].s) = token

Max(S) == CHOOSE x \in S : \A y \in S : x >= y

\* a slip: the scan does not stop at the first match, the last header row wins
find_last_header_idx(lines) ==
    LET hits == {i \in 1..Len(lines) : IsHeaderLine(lines[i])}
    IN  IF hits = {} THEN 0 ELSE Max(hits)

\* 0 stands for None, otherwise the 1-based place of the header
find_header_idx(lines) == FirstIdx(lines, IsHeaderLine)

RECURSIVE nonempty_stripped(_)
\* [ln.strip() for ln in text.splitlines() if ln.strip()]
nonempty_stripped(text) ==
    IF text = <<>> THEN <<>>
    ELSE IF LineText(strip(Head(text))) = <<>>
         THEN nonempty_stripped(Tail(text))
         ELSE <<strip(Head(text))>> \o nonempty_stripped(Tail(text))

header_slice(lines, header_idx) == SubSeq(lines, header_idx + 1, Len(lines))

extract_transaction_lines_from_text(text) ==
    LET lines == nonempty_stripped(text)
        header_idx == find_header_idx(lines)
    IN  IF header_idx = 0
        THEN [lines |-> <<>>, header_found |-> FALSE]
        ELSE [lines |-> header_slice(lines, header_idx), header_found |-> TRUE]

(* --------------------------- the extraction pass ----------------------- *)

RECURSIVE join(_)
\* " ".join(buffer)
join(buffer) ==
    IF buffer = <<>> THEN <<>> ELSE LineText(Head(buffer)) \o join(Tail(buffer))

\* lines 335-338: the locals of extract_transaction_lines_from_pdf
NoPages ==
    [page_texts |-> <<>>, all_lines |-> <<>>, header_found |-> FALSE,
     header_hits |-> [hit |-> <<>>, miss |-> <<>>]]

\* a slip: the lines of a page without header are kept as data lines
extract_page_keeping_all(st, text) ==
    LET page_index == Len(st.page_texts) + 1
        lines == nonempty_stripped(text)
        header_idx == find_header_idx(lines)
    IN  IF header_idx = 0
        THEN [st EXCEPT !.page_texts = Append(@, text),
                        !.header_hits.miss = Append(@, page_index),
                        !.all_lines = @ \o lines]
        ELSE [st EXCEPT !.page_texts = Append(@, text),
                        !.header_found = TRUE,
                        !.header_hits.hit = Append(@, page_index),
                        !.all_lines = @ \o header_slice(lines, header_idx)]

\* a slip: header_found = header_idx is not None, set anew on every page
extract_page_last_flag(st, text) ==
    LET page_index == Len(st.page_texts) + 1
        lines == nonempty_stripped(text)
        header_idx == find_header_idx(lines)
    IN  IF header_idx = 0
        THEN [st EXCEPT !.page_texts = Append(@, text),
                        !.header_found = FALSE,
                        !.header_hits.miss = Append(@, page_index)]
        ELSE [st EXCEPT !.page_texts = Append(@, text),
                        !.header_found = TRUE,
                        !.header_hits.hit = Append(@, page_index),
                        !.all_lines = @ \o header_slice(lines, header_idx)]

\* lines 341-351: one turn of the loop over the pages
extract_page(st, text) ==
    LET page_index == Len(st.page_texts) + 1
        lines == nonempty_stripped(text)
        header_idx == find_header_idx(lines)
    IN  IF header_idx = 0
        THEN [st EXCEPT !.page_texts = Append(@, text),
                        !.header_hits.miss = Append(@, page_index)]
        ELSE [st EXCEPT !.page_texts = Append(@, text),
                        !.header_found = TRUE,
                        !.header_hits.hit = Append(@, page_index),
                        !.all_lines = @ \o header_slice(lines, header_idx)]

RECURSIVE extract_pages(_, _)
extract_pages(st, pages) ==
    IF pages = <<>> THEN st
    ELSE CHOOSE out \in {extract_pages(next, Tail(pages)) :
                            next \in {extract_page(st, Head(pages))}} : TRUE

extract_transaction_lines_from_pdf(pages) == extract_pages(NoPages, pages)

\* lines 213-214: the locals of parse_transaction_lines
NoLines == [transactions |-> <<>>, buffer |-> <<>>, raised |-> FALSE]

\* a slip: buffer.clear() is left out
reassemble_line_no_clear(st, line, source_pdf) ==
    LET buffer == Append(st.buffer, line)
        parsed == parse_transaction_line(join(buffer), source_pdf)
    IN  IF parsed.raised
        THEN [st EXCEPT !.buffer = buffer, !.raised = TRUE]
        ELSE IF parsed.txn # None
        THEN [st EXCEPT !.transactions = Append(@, parsed.txn[1]), !.buffer = buffer]
        ELSE [st EXCEPT !.buffer = buffer]

\* a slip: transactions.insert(0, parsed) in place of append
reassemble_line_prepend(st, line, source_pdf) ==
    LET buffer == Append(st.buffer, line)
        parsed == parse_transaction_line(join(buffer), source_pdf)
    IN  IF parsed.raised
        THEN [st EXCEPT !.buffer = buffer, !.raised = TRUE]
        ELSE IF parsed.txn # None
        THEN [st EXCEPT !.transactions = <<parsed.txn[1]>> \o @, !.buffer = <<>>]
        ELSE [st EXCEPT !.buffer = buffer]

\* a slip: buffer = [line] in place of buffer.clear()
reassemble_line_keep_last(st, line, source_pdf) ==
    LET buffer == Append(st.buffer, line)
        parsed == parse_transaction_line(join(buffer), source_pdf)
    IN  IF parsed.raised
        THEN [st EXCEPT !.buffer = buffer, !.raised = TRUE]
        ELSE IF parsed.txn # None
        THEN [st EXCEPT !.transactions = Append(@, parsed.txn[1]), !.buffer = <<line>>]
        ELSE [st EXCEPT !.buffer = buffer]

\* a slip: buffer = [line] where the buffer does not resolve
reassemble_line_latest_only(st, line, source_pdf) ==
    LET buffer == Append(st.buffer, line)
        parsed == parse_transaction_line(join(buffer), source_pdf)
    IN  IF parsed.raised
        THEN [st EXCEPT !.buffer = buffer, !.raised = TRUE]
        ELSE IF parsed.txn # None
        THEN [st EXCEPT !.transactions = Append(@, parsed.txn[1]), !.buffer = <<>>]
        ELSE [st EXCEPT !.buffer = <<line>>]

\* lines 216-221: one turn of the loop over the lines
reassemble_line(st, line, source_pdf) ==
    LET buffer == Append(st.buffer, line)
        parsed == parse_transaction_line(join(buffer), source_pdf)
    IN  IF parsed.raised
        THEN [st EXCEPT !.buffer = buffer, !.raised = TRUE]
        ELSE IF parsed.txn # None
        THEN [st EXCEPT !.transactions = Append(@, parsed.txn[1]), !.buffer = <<>>]
        ELSE [st EXCEPT !.buffer = buffer]

RECURSIVE reassemble(_, _, _)
reassemble(st, lines, source_pdf) ==
    IF lines = <<>> \/ st.raised THEN st
    ELSE CHOOSE out \in {reassemble(next, Tail(lines), source_pdf) :
                            next \in {reassemble_line(st, Head(lines), source_pdf)}} : TRUE

parse_transaction_lines(lines, source_pdf) == reassemble(NoLines, lines, source_pdf)

\* lines 359-365
ParseResult(transactions, st) ==
    [transactions |-> transactions,
     section_found |-> st.header_found,
     page_texts |-> st.page_texts,
     extracted_lines |-> st.all_lines,
     header_hits |-> st.header_hits]

\* parse_pdf: the result, or raised when a line of the document raises
parse_pdf(pages, pdf_path) ==
    LET st == extract_transaction_lines_from_pdf(pages)
        parsed == parse_transaction_lines(st.all_lines, pdf_path)
    IN  [raised |-> parsed.raised,
         result |-> IF parsed.raised THEN None
                    ELSE Some(ParseResult(parsed.transactions, st))]

(* ------------------------------ persistence ---------------------------- *)

\* sha256 of the bytes of a file: the content stands for its own checksum
compute_checksum(content) == content

HasChecksum(documents, checksum) ==
    \E i \in 1..Len(documents) : documents[i].checksum = checksum

\* INSERT OR IGNORE INTO documents, keyed by the UNIQUE checksum
upsert_rows(documents, source_pdf, checksum) ==
    IF HasChecksum(documents, checksum) THEN documents
    ELSE Append(documents, [source_pdf |-> source_pdf, checksum |-> checksum])

\* SELECT id FROM documents WHERE checksum = ?: the id is the place of the row
upsert_document(documents, source_pdf, checksum) ==
    LET rows == upsert_rows(documents, source_pdf, checksum)
    IN  [documents |-> rows,
         id |-> CHOOSE i \in 1..Len(rows) : rows[i].checksum = checksum]

HasHash(rows, txn_hash) == \E i \in 1..Len(rows) : rows[i].txn_hash = txn_hash

TransactionRow(document_id, txn) ==
    [document_id |-> document_id, date |-> txn.date, type |-> txn.txn_type,
     isin |-> txn.isin, instrument_name |-> txn.instrument_name,
     quantity |-> txn.quantity, amount_in |-> txn.amount_in,
     amount_out |-> txn.amount_out, balance |-> txn.balance,
     source_pdf |-> txn.source_pdf, txn_hash |-> txn.txn_hash]

\* a slip: the rows given are counted, not the rows stored
insert_count_given(st, document_id, txn) ==
    IF HasHash(st.rows, txn.txn_hash) THEN [st EXCEPT !.total_changes = @ + 1]
    ELSE [st EXCEPT !.rows = Append(@, TransactionRow(document_id, txn)),
                    !.total_changes = @ + 1]

\* INSERT OR IGNORE INTO transactions: one row of executemany; txn_hash is UNIQUE
insert_or_ignore(st, document_id, txn) ==
    IF HasHash(st.rows, txn.txn_hash) THEN st
    ELSE [st EXCEPT !.rows = Append(@, TransactionRow(document_id, txn)),
                    !.total_changes = @ + 1]

RECURSIVE executemany(_, _, _)
executemany(st, document_id, transactions) ==
    IF transactions = <<>> \/ st.error THEN st
    ELSE executemany(insert_or_ignore(st, document_id, Head(transactions)),
                     document_id, Tail(transactions))

\* the rows afterwards, the value returned, and whether sqlite raised
insert_transactions(rows, document_id, transactions) ==
    IF transactions = <<>>
    THEN [rows |-> rows, total_changes |-> 0, error |-> FALSE]
    ELSE executemany([rows |-> rows, total_changes |-> 0, error |-> FALSE],
                     document_id, transactions)

(* ------------------------------ the state ------------------------------ *)

VARIABLES
    pc,              \* where the running call is
    pdf_path,        \* the source_pdf / pdf_path argument of the running call
    line, parsed,    \* parse_transaction_line: its line and what it returned
    text, table,     \* extract_transaction_lines_from_text: the page and the result
    page_texts, all_lines, header_found, header_hits,
                     \* the locals of extract_transaction_lines_from_pdf
    pos, buffer, transactions,
                     \* parse_transaction_lines: the next line, and its locals
    result,          \* what parse_pdf returned
    fs,              \* the folder: path -> content of the file
    db_documents, db_transactions,
                     \* the rows of the two tables, in id order
    walk, inserted,  \* scan_folder: the files still to visit, and its counter
    scans,           \* the scan_folder runs started
    last,            \* what the last turn of scan_folder's loop printed
    ret              \* what the last direct insert_transactions call returned

lineVars == <<line, parsed>>
textVars == <<text, table>>
pageVars == <<page_texts, all_lines, header_found, header_hits>>
loopVars == <<pos, buffer, transactions>>
dbVars == <<db_documents, db_transactions>>
scanVars == <<fs, walk, inserted, scans, last>>
vars == <<pc, pdf_path, lineVars, textVars, pageVars, loopVars, result, dbVars,
          scanVars, ret>>

NoPrint == [pdf_path |-> "", checksum |-> "", known |-> FALSE, found |-> 0,
            inserted_count |-> 0, header |-> "", hits |-> 0, misses |-> 0]
NoReturn == [total_changes |-> 0, error |-> FALSE, before |-> <<>>, batch |-> <<>>]

LineIdle == line = <<>> /\ parsed = NotATransaction
TextIdle == text = <<>> /\ table = [lines |-> <<>>, header_found |-> FALSE]
PageIdle ==
    /\ page_texts = NoPages.page_texts
    /\ all_lines = NoPages.all_lines
    /\ header_found = NoPages.header_found
    /\ header_hits = NoPages.header_hits
LoopIdle == pos = 0 /\ buffer = NoLines.buffer /\ transactions = NoLines.transactions
DbEmpty == db_documents = <<>> /\ db_transactions = <<>>
ScanIdle ==
    /\ fs = [p \in {} |-> ""]
    /\ walk = {}
    /\ inserted = 0
    /\ scans = 0
    /\ last = NoPrint

(* ----------------------- parse_transaction_line ------------------------ *)

Amounts == {AmtTok(-1, 0, 500), AmtTok(1, 0, 0), AmtTok(1, 1, 23456)}

RECURSIVE SeqsUpTo(_, _)
\* the sequences over S of length at most n
SeqsUpTo(S, n) ==
    IF n = 0 THEN {<<>>}
    ELSE LET shorter == SeqsUpTo(S, n - 1)
         IN  shorter \cup {Append(q, x) : q \in {r \in shorter : Len(r) = n - 1}, x \in S}

LeadingTexts == {<<>>, <<AmtTok(1, 0, 9900)>>}
DateTexts ==
    {<<>>, <<DateTok(1, 2, 2024)>>, <<DateTok(31, 2, 2024)>>, <<DateTok(29, 2, 2024)>>,
     <<WDateTok(22, "Feb", 2024)>>, <<WDateTok(30, "Feb.", 2024)>>,
     <<WDateTok(1, "Foo", 2024)>>}
TypeTexts ==
    {<<>>, <<WordTok("Kauf")>>, <<WordTok("Verkauf")>>, <<WordTok("Dividende")>>,
     <<WordTok("Handel")>>, <<WordTok("Kauf"), WordTok("Verkauf")>>,
     <<WordTok("ISTINYE"), WordTok("Handel")>>}
DescriptionTexts ==
    {<<>>, <<WordTok("Buy")>>, <<WordTok("Sell"), WordTok("Trade")>>,
     <<WordTok("Buyback")>>,
     <<WordTok("Example"), WordTok("AG"), IsinTok("DE0001234567"), NumTok(10)>>}

\* the lines given to parse_transaction_line
GeneratedLines ==
    {a \o d \o t \o e \o m :
        a \in LeadingTexts, d \in DateTexts, t \in TypeTexts, e \in DescriptionTexts,
        m \in SeqsUpTo(Amounts, MaxAmounts)}

InitLine ==
    /\ pc = "call"
    /\ pdf_path = "a.pdf"
    /\ line \in GeneratedLines
    /\ parsed = NotATransaction
    /\ TextIdle /\ PageIdle /\ LoopIdle /\ result = None
    /\ DbEmpty /\ ScanIdle /\ ret = NoReturn

\* a call of parse_transaction_line(line, pdf_path)
ParseLine ==
    /\ pc = "call"
    /\ parsed' = parse_transaction_line(line, pdf_path)
    /\ pc' = IF parsed'.raised THEN "raised" ELSE "returned"
    /\ UNCHANGED <<pdf_path, line, textVars, pageVars, loopVars, result, dbVars,
                   scanVars, ret>>

NextLine == ParseLine

SpecLine == InitLine /\ [][NextLine]_vars

(* ------------------- extract_transaction_lines_from_text --------------- *)

RawLines ==
    {RawLine(ws, id) : ws \in BOOLEAN,
                       id \in {"", "HEADER", "Header", "HeaderNoSaldo", "VerkaufDemo", "Seite"}}

InitText ==
    /\ pc = "call"
    /\ pdf_path = "a.pdf"
    /\ text \in SeqsUpTo(RawLines, MaxPageLines)
    /\ table = [lines |-> <<>>, header_found |-> FALSE]
    /\ LineIdle /\ PageIdle /\ LoopIdle /\ result = None
    /\ DbEmpty /\ ScanIdle /\ ret = NoReturn

\* a call of extract_transaction_lines_from_text(text)
LocateTable ==
    /\ pc = "call"
    /\ table' = extract_transaction_lines_from_text(text)
    /\ pc' = "returned"
    /\ UNCHANGED <<pdf_path, lineVars, text, pageVars, loopVars, result, dbVars,
                   scanVars, ret>>

NextText == LocateTable

SpecText == InitText /\ [][NextText]_vars

(* ------------------------------ parse_pdf ------------------------------ *)

\* the page texts the text source hands over
PageCatalogue ==
    {<<>>,
     <<Plain("Seite")>>,
     <<Plain("KaufExample")>>,
     <<Plain("HEADER")>>,
     <<Plain("HEADER"), Plain("KaufExample")>>,
     <<Plain("HEADER"), Plain("AGRest")>>,
     <<Plain("Header"), RawLine(TRUE, ""), RawLine(TRUE, "VerkaufDemo")>>,
     <<Plain("Seite"), Plain("HEADER"), Plain("KaufExample"), Plain("AGRest")>>,
     <<Plain("HEADER"), Plain("VerkaufDemo"), Plain("Seite")>>,
     <<Plain("HEADER"), Plain("Kauf31Feb")>>,
     <<Plain("HEADER"), Plain("AGRest"), Plain("VerkaufDemo")>>}

Paths == {"a.pdf", "b.pdf"}

Init ==
    /\ pc = "pages"
    /\ pdf_path = "a.pdf"
    /\ PageIdle /\ LoopIdle /\ result = None
    /\ LineIdle /\ TextIdle
    /\ DbEmpty /\ ScanIdle /\ ret = NoReturn

PageState ==
    [page_texts |-> page_texts, all_lines |-> all_lines,
     header_found |-> header_found, header_hits |-> header_hits]

LoopState == [transactions |-> transactions, buffer |-> buffer, raised |-> FALSE]

\* lines 341-351: the next page of the document is read
ExtractPage ==
    /\ pc = "pages"
    /\ Len(page_texts) < MaxPages
    /\ \E page \in PageCatalogue :
          LET st == extract_page(PageState, page)
          IN  /\ page_texts' = st.page_texts
              /\ all_lines' = st.all_lines
              /\ header_found' = st.header_found
              /\ header_hits' = st.header_hits
    /\ UNCHANGED <<pc, pdf_path, lineVars, textVars, loopVars, result, dbVars,
                   scanVars, ret>>

\* lines 353, 357-358, 213-214: the pages are through, the loop over the lines starts
StartLines ==
    /\ pc = "pages"
    /\ pc' = "lines"
    /\ pos' = 1
    /\ buffer' = NoLines.buffer
    /\ transactions' = NoLines.transactions
    /\ UNCHANGED <<pdf_path, lineVars, textVars, pageVars, result, dbVars, scanVars, ret>>

\* lines 215-221: one line of the stream
ReassembleLine ==
    /\ pc = "lines"
    /\ pos <= Len(all_lines)
    /\ LET st == reassemble_line(LoopState, all_lines[pos], pdf_path)
       IN  /\ buffer' = st.buffer
           /\ transactions' = st.transactions
           /\ pc' = IF st.raised THEN "raised" ELSE "lines"
    /\ pos' = pos + 1
    /\ UNCHANGED <<pdf_path, lineVars, textVars, pageVars, result, dbVars, scanVars, ret>>

\* lines 222, 359-365: the lines are through, parse_pdf returns
ReturnResult ==
    /\ pc = "lines"
    /\ pos > Len(all_lines)
    /\ result' = Some(ParseResult(transactions, PageState))
    /\ pc' = "done"
    /\ UNCHANGED <<pdf_path, lineVars, textVars, pageVars, loopVars, dbVars, scanVars, ret>>

Next == ExtractPage \/ StartLines \/ ReassembleLine \/ ReturnResult

Spec == Init /\ [][Next]_vars

(* --------------------------- insert_transactions ----------------------- *)

\* the transactions handed to insert_transactions directly
SomeTransactions ==
    {parse_transaction_line(LineText("VerkaufDemo"), "a.pdf").txn[1],
     parse_transaction_line(LineText("VerkaufDemo"), "b.pdf").txn[1],
     parse_transaction_line(join(<<"KaufExample", "AGRest">>), "a.pdf").txn[1]}

Checksums == {"statement", "sale"}

InitStore ==
    /\ pc = "idle"
    /\ pdf_path = ""
    /\ DbEmpty /\ ret = NoReturn
    /\ LineIdle /\ TextIdle /\ PageIdle /\ LoopIdle /\ result = None
    /\ ScanIdle

\* a call of upsert_document(db_path, source_pdf, checksum)
UpsertDocument ==
    /\ \E source_pdf \in Paths, checksum \in Checksums :
          db_documents' = upsert_document(db_documents, source_pdf, checksum).documents
    /\ UNCHANGED <<pc, pdf_path, lineVars, textVars, pageVars, loopVars, result,
                   db_transactions, scanVars, ret>>

\* a call of insert_transactions(db_path, document_id, transactions)
InsertTransactions ==
    /\ \E document_id \in 1..Len(db_documents),
          batch \in SeqsUpTo(SomeTransactions, MaxBatch) :
          LET done == insert_transactions(db_transactions, document_id, batch)
          IN  /\ db_transactions' = done.rows
              /\ ret' = [total_changes |-> done.total_changes, error |-> done.error,
                         before |-> db_transactions, batch |-> batch]
    /\ UNCHANGED <<pc, pdf_path, lineVars, textVars, pageVars, loopVars, result,
                   db_documents, scanVars>>

NextStore == UpsertDocument \/ InsertTransactions

SpecStore == InitStore /\ [][NextStore]_vars

(* ------------------------------ scan_folder ---------------------------- *)

\* the pages of the documents that lie in the folder, by content
DocPages(content) ==
    CASE content = "statement" ->
             << <<Plain("HEADER"), Plain("KaufExample")>>,
                <<Plain("Seite")>>,
                <<Plain("HEADER"), Plain("AGRest")>> >>
      [] content = "sale" -> << <<Plain("Header"), Plain("VerkaufDemo")>> >>
      [] content = "broken" -> << <<Plain("HEADER"), Plain("Kauf31Feb")>> >>
      [] content = "letter" -> << <<Plain("Seite")>> >>
      [] OTHER -> <<>>

Contents == {"statement", "sale", "broken", "letter", "corrupt"}

\* line 340: pdfplumber.open(pdf_path) raises on bytes that are no readable PDF
pdfplumber_open(content) ==
    [raised |-> content = "corrupt", pages |-> DocPages(content)]
Files == Paths \cup {"notes.txt"}

\* filename.lower().endswith(".pdf")
IsPdf(filename) == filename \in Paths

InitScan ==
    /\ pc = "idle"
    /\ pdf_path = ""
    /\ fs \in [Files -> Contents \cup {"absent"}]
    /\ fs["notes.txt"] \in {"absent", "letter"}
    /\ walk = {}
    /\ inserted = 0
    /\ scans = 0
    /\ last = NoPrint
    /\ DbEmpty /\ ret = NoReturn
    /\ LineIdle /\ TextIdle /\ PageIdle /\ LoopIdle /\ result = None

\* between two runs a file is written, replaced or removed
PutFile ==
    /\ pc \in {"idle", "raised"}
    /\ scans \in 1..(MaxScans - 1)
    /\ \E f \in Paths, content \in Contents \cup {"absent"} :
          /\ fs[f] # content
          /\ fs' = [fs EXCEPT ![f] = content]
    /\ UNCHANGED <<pc, pdf_path, lineVars, textVars, pageVars, loopVars, result, dbVars,
                   walk, inserted, scans, last, ret>>

\* lines 455-457: scan_folder starts
StartScan ==
    /\ pc \in {"idle", "raised"}
    /\ scans < MaxScans
    /\ scans' = scans + 1
    /\ pc' = "scanning"
    /\ inserted' = 0
    /\ walk' = {f \in Files : fs[f] # "absent"}
    /\ UNCHANGED <<pdf_path, lineVars, textVars, pageVars, loopVars, result, dbVars,
                   fs, last, ret>>

\* lines 459-460: a file that is no PDF
SkipFile ==
    /\ pc = "scanning"
    /\ \E filename \in walk :
          /\ ~IsPdf(filename)
          /\ walk' = walk \ {filename}
    /\ UNCHANGED <<pc, pdf_path, lineVars, textVars, pageVars, loopVars, result, dbVars,
                   fs, inserted, scans, last, ret>>

\* lines 479-487: the diagnostics printed for a document without transactions
Printed(path, checksum, known, parse_result, inserted_count) ==
    LET empty == Len(parse_result.transactions) = 0
    IN  [pdf_path |-> path, checksum |-> checksum, known |-> known,
         found |-> Len(parse_result.transactions),
         inserted_count |-> inserted_count,
         header |-> IF ~empty THEN ""
                    ELSE IF parse_result.section_found THEN "yes" ELSE "no",
         hits |-> IF empty THEN Len(parse_result.header_hits.hit) ELSE 0,
         misses |-> IF empty THEN Len(parse_result.header_hits.miss) ELSE 0]

\* lines 461-487: one PDF of the folder
ScanFile ==
    /\ pc = "scanning"
    /\ \E filename \in walk :
        \E parsing \in {IF pdfplumber_open(fs[filename]).raised
                         THEN [raised |-> TRUE, result |-> None]
                         ELSE parse_pdf(pdfplumber_open(fs[filename]).pages, filename)} :
          LET checksum == compute_checksum(fs[filename])
              known == HasChecksum(db_documents, checksum)
              document == upsert_document(db_documents, filename, checksum)
              done == insert_transactions(db_transactions, document.id,
                                          parsing.result[1].transactions)
          IN  /\ IsPdf(filename)
              /\ pdf_path' = filename
              /\ db_documents' = document.documents
              /\ IF parsing.raised
                 THEN /\ pc' = "raised"
                      /\ walk' = {}
                      /\ UNCHANGED <<db_transactions, inserted, last>>
                 ELSE /\ pc' = "scanning"
                      /\ walk' = walk \ {filename}
                      /\ db_transactions' = done.rows
                      /\ inserted' = inserted + done.total_changes
                      /\ last' = Printed(filename, checksum, known, parsing.result[1],
                                         done.total_changes)
    /\ UNCHANGED <<lineVars, textVars, pageVars, loopVars, result, fs, scans, ret>>

\* line 488: the walk is through
EndScan ==
    /\ pc = "scanning"
    /\ walk = {}
    /\ pc' = "idle"
    /\ UNCHANGED <<pdf_path, lineVars, textVars, pageVars, loopVars, result, dbVars,
                   fs, walk, inserted, scans, last, ret>>

NextScan == PutFile \/ StartScan \/ SkipFile \/ ScanFile \/ EndScan

SpecScan == InitScan /\ [][NextScan]_vars

(* =============================== claims ================================ *)

\* the amounts of a line, in the order they stand on it
AmountsOn(tokens) ==
    LET at == {i \in 1..Len(tokens) : IsAmt(tokens[i])}
        Nth(n) == CHOOSE i \in at : Cardinality({j \in at : j < i}) = n - 1
    IN  [n \in 1..Cardinality(at) |-> parse_amount(tokens[Nth(n)])]

LineResolved == pc = "returned" /\ parsed.txn # None

\* C6: the amount-count policy of parse_transaction_line.  With n amounts on a
\* resolved line: n >= 3 gives the last three as (amount_in, amount_out, balance);
\* n = 2 gives the first as the transaction amount, routed by the resolved type
\* (buy: out, sell: in, otherwise a negative one: out as its absolute value, any
\* other: in) with the other side absent, and the last as balance; n = 1 gives
\* balance alone.
AmountCountPolicy ==
    LineResolved =>
        LET txn == parsed.txn[1]
            amounts == AmountsOn(line)
            n == Len(amounts)
        IN  /\ n >= 1
            /\ n >= 3 =>
                  /\ txn.amount_in = Some(amounts[n - 2])
                  /\ txn.amount_out = Some(amounts[n - 1])
                  /\ txn.balance = Some(amounts[n])
            /\ n = 2 =>
                  /\ txn.balance = Some(amounts[2])
                  /\ txn.txn_type = "buy" =>
                        txn.amount_out = Some(amounts[1]) /\ txn.amount_in = None
                  /\ txn.txn_type = "sell" =>
                        txn.amount_in = Some(amounts[1]) /\ txn.amount_out = None
                  /\ txn.txn_type \notin {"buy", "sell"} /\ amounts[1] < 0 =>
                        txn.amount_out = Some(-amounts[1]) /\ txn.amount_in = None
                  /\ txn.txn_type \notin {"buy", "sell"} /\ amounts[1] >= 0 =>
                        txn.amount_in = Some(amounts[1]) /\ txn.amount_out = None
            /\ n = 1 =>
                  /\ txn.balance = Some(amounts[1])
                  /\ txn.amount_in = None
                  /\ txn.amount_out = None

\* a resolved line with two amounts, the first negative, of a type that is
\* neither buy nor sell: the amount went to amount_out
TwoAmountsRoutedBySign ==
    /\ LineResolved
    /\ Len(AmountsOn(line)) = 2
    /\ AmountsOn(line)[1] < 0
    /\ parsed.txn[1].txn_type = "transfer"
    /\ parsed.txn[1].amount_out = Some(500)

\* C7: parse_transaction_line never raises: every call returns a transaction
\* or "not a transaction"
ParseLineNeverRaises == pc # "raised"

NonBlank(raw) == LineText(raw.line) # <<>>

\* C8: the Table Locator.  The data lines of a page are the non-empty, trimmed
\* lines strictly after the first line that holds all six header tokens, in
\* their order; without such a line the page gives "not found" and no lines.
DataLinesFollowFirstHeader ==
    pc = "returned" =>
        LET kept == SelectSeq(text, NonBlank)
            headers == {i \in 1..Len(kept) : IsHeaderLine(kept[i].line)}
        IN  IF headers = {}
            THEN table = [lines |-> <<>>, header_found |-> FALSE]
            ELSE /\ table.header_found
                 /\ Len(table.lines) = Len(kept) - Min(headers)
                 /\ \A i \in 1..Len(table.lines) :
                       table.lines[i] = kept[Min(headers) + i].line

\* a page with a line before the header, an empty line, and the header row
\* once more after it: only the second header row is a data line
RepeatedHeaderIsData ==
    /\ pc = "returned"
    /\ Len(text) = 3
    /\ text[1] = RawLine(TRUE, "Seite")
    /\ text[2].line = "Header"
    /\ table.lines = <<"HEADER">>


(* ----------------------- claims on the extraction pass ----------------- *)

\* what the Line Reassembler has to do with the line at pos
Combined == join(Append(buffer, all_lines[pos]))
Resolution == parse_transaction_line(Combined, pdf_path)
LineStep == pc = "lines" /\ pos' = pos + 1

\* C3: one step of the Line Reassembler.  The incoming line is appended to the
\* one pending buffer and the buffer, joined, is given to parse_transaction_line;
\* if that resolves, exactly one transaction is emitted and the buffer is empty
\* right after; if not, nothing is emitted and the buffer holds its earlier
\* lines and the new one.
ReassemblerStep ==
    [][LineStep =>
          IF Resolution.txn # None
          THEN /\ transactions' = Append(transactions, Resolution.txn[1])
               /\ buffer' = <<>>
          ELSE /\ transactions' = transactions
               /\ buffer' = Append(buffer, all_lines[pos])]_vars

\* the transaction split over "01.02.2024 Kauf Example" and "AG DE0001234567 ..."
\* has resolved on the arrival of its second line, not before
SplitTransactionResolved ==
    /\ pc = "lines"
    /\ pos = 3
    /\ SubSeq(all_lines, 1, 2) = <<"KaufExample", "AGRest">>
    /\ parse_transaction_line(LineText("KaufExample"), pdf_path).txn = None
    /\ buffer = <<>>
    /\ Len(transactions) = 1
    /\ transactions[1].instrument_name = Some(<<WordTok("Example"), WordTok("AG")>>)

HasHeader(page) == extract_transaction_lines_from_text(page).header_found

\* C4: a page without header gives no data line and leaves the reassembly
\* alone: the document with its header-less pages taken out yields the same
\* line stream and the same transactions, and reading such a page changes
\* neither the stream nor the reassembler's state.
HeaderlessPageLeavesNoTrace ==
    [][/\ (pc = "pages" /\ Len(page_texts') = Len(page_texts) + 1
            /\ ~HasHeader(page_texts'[Len(page_texts')]))
          => /\ all_lines' = all_lines
             /\ buffer' = buffer
             /\ transactions' = transactions
       /\ pc' = "done"
          => LET without == parse_pdf(SelectSeq(page_texts', HasHeader), pdf_path)
             IN  /\ ~without.raised
                 /\ without.result[1].extracted_lines = result'[1].extracted_lines
                 /\ without.result[1].transactions = result'[1].transactions]_vars

\* a transaction whose two lines lie on the pages before and after a page
\* that has a line but no header
ResolvedAcrossHeaderlessPage ==
    /\ pc = "done"
    /\ header_hits = [hit |-> <<1, 3>>, miss |-> <<2>>]
    /\ page_texts[2] = <<Plain("KaufExample")>>
    /\ all_lines = <<"KaufExample", "AGRest">>
    /\ Len(result[1].transactions) = 1

IsPrefix(s, t) == Len(s) <= Len(t) /\ SubSeq(t, 1, Len(s)) = s

\* C5: transactions stand in the order their lines resolved.  The stream is
\* only ever extended at its end, page after page; its lines are taken in
\* order; a transaction is emitted only by the step of the line that completes
\* it, at the end of the list; and no step reorders, removes or changes an
\* emitted one, the result holding the list as it stands.
EmittedInResolutionOrder ==
    [][/\ IsPrefix(all_lines, all_lines')
       /\ pos' >= pos
       /\ \/ transactions' = transactions
          \/ /\ LineStep
             /\ transactions' = Append(transactions, Resolution.txn[1])
       /\ pc' = "done" => result'[1].transactions = transactions]_vars

\* two transactions of two pages, the one of the earlier lines first
TwoTransactionsInOrder ==
    /\ pc = "done"
    /\ Len(page_texts) = 2
    /\ all_lines = <<"KaufExample", "AGRest", "VerkaufDemo", "Seite">>
    /\ Len(result[1].transactions) = 2
    /\ result[1].transactions[1].txn_type = "buy"
    /\ result[1].transactions[2].txn_type = "sell"

Occurrences(s, x) == Cardinality({i \in 1..Len(s) : s[i] = x})

\* C9: the diagnostics of one extraction.  The header-found flag is true
\* exactly when the hit list is not empty, every page number is in exactly one
\* of the hit and miss lists (in hit exactly when the page has a header), and
\* the result carries the flag and the lists as they are.
DiagnosticsTellHeaderFound ==
    /\ header_found = (header_hits.hit # <<>>)
    /\ \A n \in 1..Len(page_texts) :
          /\ Occurrences(header_hits.hit, n) + Occurrences(header_hits.miss, n) = 1
          /\ Occurrences(header_hits.hit, n) = 1 <=> HasHeader(page_texts[n])
    /\ Len(header_hits.hit) + Len(header_hits.miss) = Len(page_texts)
    /\ pc = "done" =>
          /\ result[1].section_found = (result[1].header_hits.hit # <<>>)
          /\ result[1].header_hits = header_hits
          /\ Len(result[1].page_texts) = Len(page_texts)

\* a page that is a header row and nothing else: header found, no
\* transactions, and the pass has returned
HeaderWithoutDataLines ==
    /\ pc = "done"
    /\ page_texts = << <<Plain("HEADER")>> >>
    /\ result[1].section_found
    /\ result[1].header_hits = [hit |-> <<1>>, miss |-> <<>>]
    /\ result[1].transactions = <<>>

\* the fields of ParseResult (lines 75-80)
ParseResultFields ==
    {"transactions", "section_found", "page_texts", "extracted_lines", "header_hits"}

\* C10: lines left in the buffer at the end of the document are accounted in
\* the result: when the pass ends with k > 0 lines pending, the result has,
\* besides the transactions, the flag, the page texts, the line stream and the
\* header hits, an entry that tells of them.
UnresolvedLinesAccounted ==
    (pc = "done" /\ Len(buffer) > 0) => DOMAIN result[1] # ParseResultFields

(* --------------------- claims on insert_transactions ------------------- *)

Hashes(rows) == {rows[i].txn_hash : i \in 1..Len(rows)}

\* C2: insert_transactions.  No two stored rows share a txn_hash, no call
\* errors, the rows stored before stay as they are, and the call returns the
\* number of rows it stored: the fingerprints of its batch that were not
\* stored before, each once.
InsertReturnsNewRows ==
    /\ \A i, j \in 1..Len(db_transactions) :
          db_transactions[i].txn_hash = db_transactions[j].txn_hash => i = j
    /\ ~ret.error
    /\ IsPrefix(ret.before, db_transactions)
    /\ ret.total_changes = Len(db_transactions) - Len(ret.before)
    /\ ret.total_changes = Cardinality(Hashes(ret.batch) \ Hashes(ret.before))
    /\ Hashes(db_transactions) = Hashes(ret.before) \cup Hashes(ret.batch)

\* a transaction stored before is given again, twice in one batch: the call
\* returns 0 and the table has the one row it had
SameTransactionAgain ==
    /\ Len(ret.before) = 1
    /\ Len(ret.batch) = 2
    /\ ret.batch[1] = ret.batch[2]
    /\ ret.batch[1].txn_hash = ret.before[1].txn_hash
    /\ ret.total_changes = 0
    /\ Len(db_transactions) = 1

(* -------------------------- claims on scan_folder ---------------------- *)

\* the fields of a row that come from the statement, not from where it lay
Content(row) ==
    <<row.document_id, row.date, row.type, row.isin, row.instrument_name, row.quantity,
      row.amount_in, row.amount_out, row.balance>>

\* C1: extraction and persistence are idempotent on the content.  A document
\* whose bytes were scanned before, from whatever path, inserts nothing, and
\* the table holds each transaction of a document once.
RescanInsertsNothing ==
    /\ last.known => last.inserted_count = 0
    /\ \A i, j \in 1..Len(db_transactions) :
          Content(db_transactions[i]) = Content(db_transactions[j]) => i = j


\* a step of scan_folder that handles the PDF named filename
ScanStep(filename) ==
    /\ pc = "scanning"
    /\ filename \in walk
    /\ IsPdf(filename)
    /\ pdf_path' = filename
    /\ walk' # walk

\* C11: a document of the folder that the text source cannot open fails alone:
\* none of its transactions are stored, it is taken off the walk and the scan
\* goes on to the remaining documents of the folder.
UnreadableDocumentIsSkipped ==
    [][\A filename \in Paths :
          ScanStep(filename) /\ pdfplumber_open(fs[filename]).raised =>
              /\ pc' = "scanning"
              /\ walk' = walk \ {filename}
              /\ db_transactions' = db_transactions]_vars

\* the stream without the lines left in the buffer at its end
WithoutPending == SubSeq(all_lines, 1, Len(all_lines) - Len(buffer))

\* C12: lines still in the pending buffer when the document ends are dropped
\* silently: parse_pdf returns its result and raises nothing, no transaction is
\* made of the pending lines, and the transactions returned are those of the
\* stream without these lines.
PendingLinesDropped ==
    pc = "done" /\ buffer # <<>> =>
        LET alone == parse_transaction_lines(WithoutPending, pdf_path)
        IN  /\ result # None
            /\ result[1].transactions = transactions
            /\ parse_transaction_line(join(buffer), pdf_path) = NotATransaction
            /\ ~alone.raised
            /\ alone.buffer = <<>>
            /\ alone.transactions = transactions

\* a document returned with a transaction emitted and lines left pending after it
DroppedAfterTransaction ==
    /\ pc = "done"
    /\ buffer # <<>>
    /\ Len(transactions) >= 1
    /\ Len(header_hits.hit) >= 2
    /\ Len(buffer) >= 2

\* C13: in every transaction parse_transaction_line produces, amount_in and
\* amount_out are each absent or not negative, whatever the type and whatever
\* the number and the signs of the amounts on the line.
AmountsInOutNonNegative ==
    LineResolved =>
        /\ parsed.txn[1].amount_in = None \/ parsed.txn[1].amount_in[1] >= 0
        /\ parsed.txn[1].amount_out = None \/ parsed.txn[1].amount_out[1] >= 0

\* the text of the line that follows the matched keyword
AfterKeyword ==
    LET remainder == extract_date(line).rest
    IN  SubSeq(remainder, type_search(remainder).at + 1, Len(remainder))

TextHas(tokens, needle) == \E i \in 1..Len(tokens) : ContainsLower(tokens[i].s, needle)

\* C14: every transaction has a type among buy, sell and transfer.  When the
\* matched keyword is the generic trade keyword ("handel"), the type is buy if
\* the text after the keyword contains "buy" (any case), else sell if it
\* contains "sell", else transfer; for any other keyword it is the kind the
\* keyword table gives.
TypeFromKeyword ==
    LineResolved =>
        LET key == type_search(extract_date(line).rest).key
            txn_type == parsed.txn[1].txn_type
        IN  /\ txn_type \in {"buy", "sell", "transfer"}
            /\ key # "handel" => txn_type = TYPE_MAP(key)
            /\ key = "handel" =>
                  txn_type = IF TextHas(AfterKeyword, "buy") THEN "buy"
                             ELSE IF TextHas(AfterKeyword, "sell") THEN "sell"
                             ELSE "transfer"

\* the lengths k at which the first k of the lines, joined, parse
ResolvingLengths(lines) ==
    {k \in 1..Len(lines) :
        parse_transaction_line(join(SubSeq(lines, 1, k)), pdf_path).txn # None}

RECURSIVE Runs(_)
\* the lines cut into consecutive runs, each ending at the earliest line at
\* which its text parses, and the lines left over after the last run
Runs(lines) ==
    IF ResolvingLengths(lines) = {} THEN [runs |-> <<>>, pending |-> lines]
    ELSE LET k == Min(ResolvingLengths(lines))
         IN  CHOOSE cut \in
                {[runs |-> <<SubSeq(lines, 1, k)>> \o rest.runs,
                  pending |-> rest.pending] :
                    rest \in {Runs(SubSeq(lines, k + 1, Len(lines)))}} : TRUE

\* the lines of the stream processed so far
Processed == SubSeq(all_lines, 1, pos - 1)

\* C15: line conservation in parse_transaction_lines.  After any prefix of the
\* stream, the transactions emitted are those of the consecutive runs of the
\* prefix, each run ending at the earliest line at which its joined text parses,
\* each transaction parsed from the join of its whole run, and the buffer holds
\* exactly the lines after the last run: no line between two transactions is
\* skipped.
LinesConserved ==
    pc \in {"lines", "done"} =>
        LET cut == Runs(Processed)
        IN  /\ buffer = cut.pending
            /\ Len(transactions) = Len(cut.runs)
            /\ \A i \in 1..Len(cut.runs) :
                  /\ cut.runs[i] # <<>>
                  /\ Parsed(transactions[i]) =
                        parse_transaction_line(join(cut.runs[i]), pdf_path)

\* a second transaction whose run starts with page furniture left unresolved
\* after the first, with a line pending after it
NoiseJoinsNextTransaction ==
    /\ pc = "lines"
    /\ Len(transactions) >= 2
    /\ buffer # <<>>
    /\ Len(Runs(Processed).runs[2]) >= 2
    /\ Runs(Processed).runs[2][1] = "Seite"

=============================================================================
